---- MODULE Spec2Model ----
(***************************************************************************)
(* Model of the scheduling session of kube-batch                           *)
(* (pkg/scheduler/framework/session.go): openSession, the primitives       *)
(* Pipeline, Allocate (with dispatch), Evict, UpdateJobCondition, and      *)
(* closeSession with the job status reconciler jobStatus.                  *)
(*                                                                         *)
(* The entity model (api.JobInfo, api.NodeInfo, api.AllocatedStatus) and   *)
(* the policy registry (JobReady, JobValid) live outside session.go; they  *)
(* are modelled from the design document (sections 3, 4.2 - 4.4).          *)
(***************************************************************************)
EXTENDS Integers, Sequences, FiniteSets, TLC

----------------------------------------------------------------------------
(* Bounds of the model *)

\* number of Pipeline / Allocate / Evict calls made in one session
MaxCalls == 2
\* allocatable capacity of every node (one scalar resource dimension)
NodeCap == 3
\* largest gang minimum member count tried for a job
MaxMinMember == 2

----------------------------------------------------------------------------
(* The snapshot universe *)

Tasks == {"t1", "t2", "t3"}
\* the jobs of the snapshot, in the order of snapshot.Jobs
SnapshotJobs == << "j1", "j2", "j3" >>
Jobs == {"j1", "j2", "j3"}
Nodes == {"n1", "n2"}
\* host names a caller may pass; "ghost" is never in the node index
Hosts == Nodes \cup {"ghost"}
NoNode == ""

\* what the job-validity policies answer at open: nil, or a result that
\* does not pass; job j2 is the one they reject
jobValid == [j \in Jobs |-> IF j = "j2" THEN "fail" ELSE "nil"]
\* JobInfo.PodGroup != nil; job j3 is the one that still uses a PDB
hasPodGroup == [j \in Jobs |-> j # "j3"]

\* the reason and the message of the result of a failing validity policy
jobValidReason == "NotEnoughPods"
jobValidMessage == "job is not valid"

\* TaskInfo.Job
TaskJob == [t \in Tasks |-> IF t = "t3" THEN "j2" ELSE "j1"]
\* TaskInfo.Resreq
Resreq == [t \in Tasks |-> IF t = "t2" THEN 2 ELSE 1]

Pending == "Pending"
Pipelined == "Pipelined"
Allocated == "Allocated"
AllocatedOverBackfill == "AllocatedOverBackfill"
Binding == "Binding"
Running == "Running"
Releasing == "Releasing"
Succeeded == "Succeeded"
Failed == "Failed"

Statuses == {Pending, Pipelined, Allocated, AllocatedOverBackfill, Binding,
             Running, Releasing, Succeeded, Failed}

\* the session's UID, and the UID of an earlier session
SessionUID == "ssn"
StaleUID == "old"

PodGroupUnschedulableType == "Unschedulable"
ConditionTrue == "True"
PodGroupPending == "Pending"
PodGroupRunning == "Running"
PodGroupUnknown == "Unknown"

\* the event handlers the plugins register, in this order: the first has both
\* callbacks, the second an allocate callback only, the third a deallocate
\* callback only
PluginHandlers ==
    << [AllocateFunc |-> TRUE,  DeallocateFunc |-> TRUE],
       [AllocateFunc |-> TRUE,  DeallocateFunc |-> FALSE],
       [AllocateFunc |-> FALSE, DeallocateFunc |-> TRUE] >>

----------------------------------------------------------------------------
VARIABLES
    pc,              \* "new", "open", "closed" or "crashed" (nil dereference)
    status,          \* TaskInfo.Status of every task
    nodeName,        \* TaskInfo.NodeName of every task
    taskStatusIndex, \* JobInfo.TaskStatusIndex of every snapshot job
    minMember,       \* JobInfo.PodGroup.Spec.MinMember
    conditions,      \* JobInfo.PodGroup.Status.Conditions
    pgStatus,        \* JobInfo.PodGroup.Status: Phase, Running, Failed, Succeeded
    nodes,           \* NodeInfo of every node: Tasks, Idle, Used, Releasing
    ssnJobs,         \* Session.Jobs
    JobIndex,        \* Session.JobIndex (its key set)
    NodeIndex,       \* Session.NodeIndex (its key set)
    TopDogReadyJobs, \* Session.TopDogReadyJobs (its key set)
    eventHandlers,   \* Session.eventHandlers
    ncalls,          \* primitive calls made so far
    call,            \* the primitive call made last, with its inputs and result
    log,             \* cache calls and handler callbacks of the last call, in order
    closeCalls,      \* cache calls issued by closeSession, in order
    bindIssued,      \* tasks for which this session issued cache.Bind
    readyDirect,     \* jobs reported ready in an Allocate without backfill
    readyBackfill,   \* jobs reported ready in an Allocate with backfill
    exceeded         \* jobs whose allocated count has exceeded MinMember

vars == << pc, status, nodeName, taskStatusIndex, minMember,
           conditions, pgStatus, nodes, ssnJobs, JobIndex, NodeIndex,
           TopDogReadyJobs, eventHandlers, ncalls, call, log, closeCalls,
           bindIssued, readyDirect, readyBackfill, exceeded >>

----------------------------------------------------------------------------
(* Entity model *)

RECURSIVE SumResreq(_)
SumResreq(ts) ==
    IF ts = {} THEN 0
    ELSE LET t == CHOOSE x \in ts : TRUE
         IN Resreq[t] + SumResreq(ts \ {t})

\* api.AllocatedStatus: the statuses that count as "resource committed"
AllocatedStatus(s) == s \in {Allocated, AllocatedOverBackfill, Binding, Running}

\* the loop of jobStatus over TaskStatusIndex that adds up the tasks in an
\* allocated status
RECURSIVE CountAllocated(_, _)
CountAllocated(index, todo) ==
    IF todo = {} THEN 0
    ELSE LET s == CHOOSE x \in todo : TRUE
         IN (IF AllocatedStatus(s) THEN Cardinality(index[s]) ELSE 0)
            + CountAllocated(index, todo \ {s})

\* the jobs of the job index that have more tasks in an allocated status
\* than their PodGroup's MinMember
Exceeding(index, tsi) ==
    { j \in index : CountAllocated(tsi[j], Statuses) > minMember[j] }

\* The mutable part of the session a primitive works on.
Cur == [ status |-> status, nodeName |-> nodeName,
         taskStatusIndex |-> taskStatusIndex, nodes |-> nodes,
         TopDogReadyJobs |-> TopDogReadyJobs, log |-> << >>,
         bindIssued |-> bindIssued ]

\* JobInfo.UpdateTaskStatus: take the task out of the bucket of its old
\* status, set the status, put it into the bucket of the new one.
UpdateTaskStatus(S, job, task, newStatus) ==
    [S EXCEPT
       !.taskStatusIndex[job] =
           [s \in Statuses |->
               IF s = newStatus THEN S.taskStatusIndex[job][s] \cup {task}
               ELSE S.taskStatusIndex[job][s] \ {task}],
       !.status[task] = newStatus]

\* the bucket of a node's capacity a task of this status is charged to
Bucket(s) == IF s = Releasing THEN "releasing" ELSE "used"

\* NodeInfo.AddTask succeeds unless the node already lists the task or its
\* idle capacity does not cover the task's request.
AddTaskOK(S, node, task) ==
    /\ task \notin DOMAIN S.nodes[node].Tasks
    /\ Resreq[task] <= S.nodes[node].Idle

\* NodeInfo.AddTask: list the task and charge its request to used (to
\* releasing for a releasing task), taking it from idle; on error the node
\* is left as it was.
AddTask(S, node, task) ==
    IF ~AddTaskOK(S, node, task) THEN S
    ELSE LET n == S.nodes[node]
             b == Bucket(S.status[task])
         IN [S EXCEPT !.nodes[node] =
               [ Tasks |-> [t \in DOMAIN n.Tasks \cup {task} |->
                               IF t = task THEN b ELSE n.Tasks[t]],
                 Idle |-> n.Idle - Resreq[task],
                 Used |-> IF b = "used" THEN n.Used + Resreq[task] ELSE n.Used,
                 Releasing |-> IF b = "releasing" THEN n.Releasing + Resreq[task]
                               ELSE n.Releasing ]]

\* UpdateTask that charges the new bucket without releasing the old one
UpdateTask_NoRelease(S, node, task) ==
    IF task \notin DOMAIN S.nodes[node].Tasks THEN S
    ELSE LET n == S.nodes[node]
             new == Bucket(S.status[task])
             r == Resreq[task]
         IN [S EXCEPT !.nodes[node] =
               [ Tasks |-> [n.Tasks EXCEPT ![task] = new],
                 Idle |-> n.Idle,
                 Used |-> n.Used + (IF new = "used" THEN r ELSE 0),
                 Releasing |-> n.Releasing + (IF new = "releasing" THEN r ELSE 0) ]]

\* NodeInfo.UpdateTask: re-charge a listed task according to its current
\* status; an error (task not on the node) leaves the node as it was.
UpdateTask(S, node, task) ==
    IF task \notin DOMAIN S.nodes[node].Tasks THEN S
    ELSE LET n == S.nodes[node]
             old == n.Tasks[task]
             new == Bucket(S.status[task])
             r == Resreq[task]
         IN [S EXCEPT !.nodes[node] =
               [ Tasks |-> [n.Tasks EXCEPT ![task] = new],
                 Idle |-> n.Idle,
                 Used |-> n.Used - (IF old = "used" THEN r ELSE 0)
                                 + (IF new = "used" THEN r ELSE 0),
                 Releasing |-> n.Releasing - (IF old = "releasing" THEN r ELSE 0)
                                           + (IF new = "releasing" THEN r ELSE 0) ]]


----------------------------------------------------------------------------
(* Session primitives *)

\* one entry of the log of a call: a cache call (ok: whether it succeeded) or
\* a handler callback (handler: its position in eventHandlers); st and listed
\* are the task's status and whether the node of its node name lists it,
\* at that moment
Entry(S, kind, task, handler, ok) ==
    [ kind |-> kind, task |-> task, handler |-> handler, ok |-> ok,
      st |-> S.status[task],
      listed |-> /\ S.nodeName[task] \in Nodes
                 /\ task \in DOMAIN S.nodes[S.nodeName[task]].Tasks ]

Logged(S, kind, task, handler, ok) ==
    [S EXCEPT !.log = Append(S.log, Entry(S, kind, task, handler, ok))]

\* FireAllocate that walks the handlers from the last registered to the first
RECURSIVE FireAllocate_Backwards(_, _, _)
FireAllocate_Backwards(S, task, i) ==
    IF i > Len(eventHandlers) THEN S
    ELSE LET h == Len(eventHandlers) + 1 - i
         IN FireAllocate_Backwards(
               IF eventHandlers[h].AllocateFunc
               THEN Logged(S, "AllocateFunc", task, h, TRUE) ELSE S,
               task, i + 1)

\* the loops over ssn.eventHandlers of Pipeline and Allocate
RECURSIVE FireAllocate(_, _, _)
FireAllocate(S, task, i) ==
    IF i > Len(eventHandlers) THEN S
    ELSE FireAllocate(IF eventHandlers[i].AllocateFunc
                      THEN Logged(S, "AllocateFunc", task, i, TRUE) ELSE S,
                      task, i + 1)

\* the loop over ssn.eventHandlers of Evict
RECURSIVE FireDeallocate(_, _, _)
FireDeallocate(S, task, i) ==
    IF i > Len(eventHandlers) THEN S
    ELSE FireDeallocate(IF eventHandlers[i].DeallocateFunc
                        THEN Logged(S, "DeallocateFunc", task, i, TRUE) ELSE S,
                        task, i + 1)

\* Place that forgets to set the task's node name
Place_NoNodeName(S, task, hostname, newStatus) ==
    LET S1 == IF TaskJob[task] \in JobIndex
              THEN UpdateTaskStatus(S, TaskJob[task], task, newStatus)
              ELSE S
        S3 == IF hostname \in NodeIndex THEN AddTask(S1, hostname, task) ELSE S1
    IN FireAllocate(S3, task, 1)

\* the part Pipeline and Allocate share: status in the job, node name,
\* attachment to the node, allocate callbacks
Place(S, task, hostname, newStatus) ==
    LET S1 == IF TaskJob[task] \in JobIndex
              THEN UpdateTaskStatus(S, TaskJob[task], task, newStatus)
              ELSE S
        S2 == [S1 EXCEPT !.nodeName[task] = hostname]
        S3 == IF hostname \in NodeIndex THEN AddTask(S2, hostname, task) ELSE S2
    IN FireAllocate(S3, task, 1)

\* Pipeline that reserves the task's volumes at the cache, as Allocate does
PipelineBody_Reserves(S, task, hostname) ==
    Place(Logged(S, "AllocateVolumes", task, 0, TRUE), task, hostname, Pipelined)

\* Session.Pipeline
PipelineBody(S, task, hostname) == Place(S, task, hostname, Pipelined)

\* dispatch that goes on to Bind although BindVolumes failed
dispatch_IgnoresVolumeFailure(S, task, outcome) ==
    LET S1 == Logged(S, "BindVolumes", task, 0, outcome # "bindVolumesFails")
        S2 == [Logged(S1, "Bind", task, 0, outcome # "bindFails")
                  EXCEPT !.bindIssued = @ \cup {task}]
    IN IF outcome = "bindFails" THEN S2
       ELSE IF TaskJob[task] \in JobIndex
            THEN UpdateTaskStatus(S2, TaskJob[task], task, Binding)
            ELSE S2

\* dispatch that binds the task but leaves its status as it was
dispatch_NoStatus(S, task, outcome) ==
    LET S1 == Logged(S, "BindVolumes", task, 0, outcome # "bindVolumesFails")
        S2 == [Logged(S1, "Bind", task, 0, outcome # "bindFails")
                  EXCEPT !.bindIssued = @ \cup {task}]
    IN IF outcome = "bindVolumesFails" THEN S1 ELSE S2

\* Session.dispatch; outcome is what the cache answers for this task:
\* "ok", "bindVolumesFails" or "bindFails"
dispatch(S, task, outcome) ==
    LET S1 == Logged(S, "BindVolumes", task, 0, outcome # "bindVolumesFails")
        S2 == [Logged(S1, "Bind", task, 0, outcome # "bindFails")
                  EXCEPT !.bindIssued = @ \cup {task}]
    IN IF outcome = "bindVolumesFails" THEN S1
       ELSE IF outcome = "bindFails" THEN S2
       ELSE IF TaskJob[task] \in JobIndex
            THEN UpdateTaskStatus(S2, TaskJob[task], task, Binding)
            ELSE S2

\* DispatchAll that dispatches the first task of the batch only
RECURSIVE DispatchAll_First(_, _, _, _)
DispatchAll_First(S, order, outcomes, i) ==
    IF i > Len(order) \/ i > 1 THEN S
    ELSE DispatchAll_First(dispatch(S, order[i], outcomes[order[i]]),
                           order, outcomes, i + 1)

\* DispatchAll that gives up at the first task whose dispatch fails
RECURSIVE DispatchAll_Abort(_, _, _, _)
DispatchAll_Abort(S, order, outcomes, i) ==
    IF i > Len(order) THEN S
    ELSE IF outcomes[order[i]] # "ok"
         THEN dispatch(S, order[i], outcomes[order[i]])
         ELSE DispatchAll_Abort(dispatch(S, order[i], outcomes[order[i]]),
                                order, outcomes, i + 1)

\* the loop of Allocate over job.TaskStatusIndex[Allocated], in the order the
\* map iteration yields the tasks
RECURSIVE DispatchAll(_, _, _, _)
DispatchAll(S, order, outcomes, i) ==
    IF i > Len(order) THEN S
    ELSE DispatchAll(dispatch(S, order[i], outcomes[order[i]]),
                     order, outcomes, i + 1)

\* the iteration orders of a map with these keys
Orders(ts) ==
    { o \in [1..Cardinality(ts) -> ts] :
        \A i, k \in 1..Cardinality(ts) : i # k => o[i] # o[k] }

Outcomes == {"ok", "bindVolumesFails", "bindFails"}

\* Session.Allocate after AllocateVolumes succeeded, up to the readiness test
AllocatePlace(S, task, hostname, usingBackfillTaskRes) ==
    Place(Logged(S, "AllocateVolumes", task, 0, TRUE), task, hostname,
          IF usingBackfillTaskRes THEN AllocatedOverBackfill ELSE Allocated)

\* AllocateReady that dispatches whether or not backfill resources are used
AllocateReady_AlwaysDispatch(S, job, usingBackfillTaskRes, ready, order, outcomes) ==
    IF ready THEN DispatchAll(S, order, outcomes, 1) ELSE S

\* AllocateReady that does not record a job ready on backfill resources
AllocateReady_NoRecord(S, job, usingBackfillTaskRes, ready, order, outcomes) ==
    IF ready /\ ~usingBackfillTaskRes
    THEN DispatchAll(S, order, outcomes, 1)
    ELSE S

\* Session.Allocate from the readiness test on, for a job of the job index;
\* ready is the answer of ssn.JobReady(job)
AllocateReady(S, job, usingBackfillTaskRes, ready, order, outcomes) ==
    IF ready /\ ~usingBackfillTaskRes
    THEN DispatchAll(S, order, outcomes, 1)
    ELSE IF ready
         THEN [S EXCEPT !.TopDogReadyJobs = @ \cup {job}]
         ELSE S

\* EvictBody that leaves the node's bookkeeping alone
EvictBody_NoNodeUpdate(S, reclaimee) ==
    LET S0 == Logged(S, "Evict", reclaimee, 0, TRUE)
        S1 == IF TaskJob[reclaimee] \in JobIndex
              THEN UpdateTaskStatus(S0, TaskJob[reclaimee], reclaimee, Releasing)
              ELSE S0
    IN FireDeallocate(S1, reclaimee, 1)

\* Session.Evict after cache.Evict succeeded
EvictBody(S, reclaimee) ==
    LET S0 == Logged(S, "Evict", reclaimee, 0, TRUE)
        S1 == IF TaskJob[reclaimee] \in JobIndex
              THEN UpdateTaskStatus(S0, TaskJob[reclaimee], reclaimee, Releasing)
              ELSE S0
        S2 == IF S1.nodeName[reclaimee] \in NodeIndex
              THEN UpdateTask(S1, S1.nodeName[reclaimee], reclaimee)
              ELSE S1
    IN FireDeallocate(S2, reclaimee, 1)

\* write the outcome of a primitive back to the session
Commit(S) ==
    /\ status' = S.status
    /\ nodeName' = S.nodeName
    /\ taskStatusIndex' = S.taskStatusIndex
    /\ nodes' = S.nodes
    /\ TopDogReadyJobs' = S.TopDogReadyJobs
    /\ log' = S.log
    /\ bindIssued' = S.bindIssued
    /\ exceeded' = exceeded \cup Exceeding(JobIndex, S.taskStatusIndex)

Call(op, task, host, backfill, ready, err) ==
    [ op |-> op, task |-> task, host |-> host, backfill |-> backfill,
      ready |-> ready, err |-> err ]

Static == << minMember, conditions, pgStatus, ssnJobs, JobIndex, NodeIndex,
             eventHandlers, closeCalls >>

Pipeline(task, hostname) ==
    /\ pc = "open"
    /\ ncalls < MaxCalls
    /\ Commit(PipelineBody(Cur, task, hostname))
    /\ call' = Call("Pipeline", task, hostname, FALSE, FALSE, FALSE)
    /\ ncalls' = ncalls + 1
    /\ UNCHANGED << pc, readyDirect, readyBackfill, Static >>

\* Allocate that places the task before it learns that AllocateVolumes failed
AllocateVolumesFails_Late(task, hostname, usingBackfillTaskRes) ==
    /\ pc = "open"
    /\ ncalls < MaxCalls
    /\ Commit(Place(Logged(Cur, "AllocateVolumes", task, 0, FALSE), task,
                    hostname, Allocated))
    /\ call' = Call("Allocate", task, NoNode, FALSE, FALSE, TRUE)
    /\ ncalls' = ncalls + 1
    /\ UNCHANGED << pc, readyDirect, readyBackfill, Static >>

\* Allocate when cache.AllocateVolumes fails
AllocateVolumesFails(task, hostname, usingBackfillTaskRes) ==
    /\ pc = "open"
    /\ ncalls < MaxCalls
    /\ Commit(Logged(Cur, "AllocateVolumes", task, 0, FALSE))
    /\ call' = Call("Allocate", task, NoNode, FALSE, FALSE, TRUE)
    /\ ncalls' = ncalls + 1
    /\ UNCHANGED << pc, readyDirect, readyBackfill, Static >>

\* Allocate of a task whose job is in the job index; the cache answers the
\* dispatched tasks with outcomes, and the map TaskStatusIndex[Allocated] is
\* walked in some order
Allocate(task, hostname, usingBackfillTaskRes, ready) ==
    /\ pc = "open"
    /\ ncalls < MaxCalls
    /\ TaskJob[task] \in JobIndex
    /\ LET S == AllocatePlace(Cur, task, hostname, usingBackfillTaskRes)
           job == TaskJob[task]
           batch == S.taskStatusIndex[job][Allocated]
       IN \E order \in Orders(batch), outcomes \in [batch -> Outcomes] :
             Commit(AllocateReady(S, job, usingBackfillTaskRes, ready,
                                  order, outcomes))
    /\ call' = Call("Allocate", task, hostname, usingBackfillTaskRes, ready, FALSE)
    /\ readyDirect' = IF ready /\ ~usingBackfillTaskRes
                      THEN readyDirect \cup {TaskJob[task]} ELSE readyDirect
    /\ readyBackfill' = IF ready /\ usingBackfillTaskRes
                        THEN readyBackfill \cup {TaskJob[task]} ELSE readyBackfill
    /\ ncalls' = ncalls + 1
    /\ UNCHANGED << pc, Static >>

\* Allocate of a task whose job is not in the job index: job is nil, and when
\* JobReady(nil) answers true, job.TaskStatusIndex (or job.UID) dereferences
\* the nil pointer
AllocateNoJob(task, hostname, usingBackfillTaskRes, ready) ==
    /\ pc = "open"
    /\ ncalls < MaxCalls
    /\ TaskJob[task] \notin JobIndex
    /\ Commit(AllocatePlace(Cur, task, hostname, usingBackfillTaskRes))
    /\ call' = Call("Allocate", task, hostname, usingBackfillTaskRes, ready, FALSE)
    /\ pc' = IF ready THEN "crashed" ELSE pc
    /\ ncalls' = ncalls + 1
    /\ UNCHANGED << readyDirect, readyBackfill, Static >>

\* Evict that marks the task Releasing before it learns that cache.Evict failed
EvictFails_Late(reclaimee) ==
    /\ pc = "open"
    /\ ncalls < MaxCalls
    /\ Commit(IF TaskJob[reclaimee] \in JobIndex
              THEN UpdateTaskStatus(Logged(Cur, "Evict", reclaimee, 0, FALSE),
                                    TaskJob[reclaimee], reclaimee, Releasing)
              ELSE Logged(Cur, "Evict", reclaimee, 0, FALSE))
    /\ call' = Call("Evict", reclaimee, NoNode, FALSE, FALSE, TRUE)
    /\ ncalls' = ncalls + 1
    /\ UNCHANGED << pc, readyDirect, readyBackfill, Static >>

\* Evict when cache.Evict fails
EvictFails(reclaimee) ==
    /\ pc = "open"
    /\ ncalls < MaxCalls
    /\ Commit(Logged(Cur, "Evict", reclaimee, 0, FALSE))
    /\ call' = Call("Evict", reclaimee, NoNode, FALSE, FALSE, TRUE)
    /\ ncalls' = ncalls + 1
    /\ UNCHANGED << pc, readyDirect, readyBackfill, Static >>

Evict(reclaimee) ==
    /\ pc = "open"
    /\ ncalls < MaxCalls
    /\ Commit(EvictBody(Cur, reclaimee))
    /\ call' = Call("Evict", reclaimee, NoNode, FALSE, FALSE, FALSE)
    /\ ncalls' = ncalls + 1
    /\ UNCHANGED << pc, readyDirect, readyBackfill, Static >>


----------------------------------------------------------------------------
(* Job conditions, open and close *)

\* a PodGroupCondition; Reason and Message are empty unless set
Condition(type, st, tid) ==
    [Type |-> type, Status |-> st, TransitionID |-> tid,
     Reason |-> "", Message |-> ""]

\* the first position of a condition of this type, 0 if there is none
RECURSIVE IndexOfType(_, _, _)
IndexOfType(conds, type, i) ==
    IF i > Len(conds) THEN 0
    ELSE IF conds[i].Type = type THEN i
    ELSE IndexOfType(conds, type, i + 1)

\* Session.UpdateJobCondition against the job index as it is at the call:
\* whether it returns an error, and the job's conditions afterwards
UpdateJobConditionBody(index, conds, job, cond) ==
    IF job \notin index THEN [err |-> TRUE, conds |-> conds]
    ELSE LET i == IndexOfType(conds[job], cond.Type, 1)
         IN [err |-> FALSE,
             conds |-> [conds EXCEPT ![job] =
                          IF i = 0 THEN Append(@, cond)
                          ELSE [@ EXCEPT ![i] = cond]]]

\* the loop of openSession over snapshot.Jobs: the jobs kept, and the
\* conditions after the attempts to mark the failing ones; the job index is
\* still empty while the loop runs
RECURSIVE OpenJobs(_, _, _, _)
OpenJobs(snapshotJobs, i, kept, conds) ==
    IF i > Len(snapshotJobs) THEN [Jobs |-> kept, conds |-> conds]
    ELSE LET job == snapshotJobs[i]
         IN IF jobValid[job] # "nil"
            THEN OpenJobs(snapshotJobs, i + 1, kept,
                   IF jobValid[job] = "fail"
                   THEN UpdateJobConditionBody({}, conds, job,
                          [Condition(PodGroupUnschedulableType, ConditionTrue,
                                     SessionUID)
                             EXCEPT !.Reason = jobValidReason,
                                    !.Message = jobValidMessage]).conds
                   ELSE conds)
            ELSE OpenJobs(snapshotJobs, i + 1, Append(kept, job), conds)

Range(seq) == { seq[i] : i \in 1..Len(seq) }

openSession ==
    /\ pc = "new"
    /\ LET r == OpenJobs(SnapshotJobs, 1, << >>, conditions)
       IN /\ ssnJobs' = r.Jobs
          /\ JobIndex' = Range(r.Jobs)
          /\ conditions' = r.conds
    /\ NodeIndex' = Nodes
    /\ TopDogReadyJobs' = {}
    /\ pc' = "open"
    /\ call' = Call("openSession", "", NoNode, FALSE, FALSE, FALSE)
    /\ exceeded' = Exceeding(JobIndex', taskStatusIndex)
    /\ UNCHANGED << status, nodeName, taskStatusIndex, minMember,
                    pgStatus, nodes, eventHandlers, ncalls, log,
                    closeCalls, bindIssued, readyDirect, readyBackfill >>

\* Session.AddEventHandler
AddEventHandler(handlers, eh) == Append(handlers, eh)

RECURSIVE AddEventHandlers(_, _, _)
AddEventHandlers(handlers, ehs, i) ==
    IF i > Len(ehs) THEN handlers
    ELSE AddEventHandlers(AddEventHandler(handlers, ehs[i]), ehs, i + 1)

\* the plugins register their handlers with AddEventHandler when they are
\* opened on the session, before the scheduling actions run
RegisterHandlers ==
    /\ pc = "open"
    /\ ncalls = 0
    /\ eventHandlers = << >>
    /\ eventHandlers' = AddEventHandlers(eventHandlers, PluginHandlers, 1)
    /\ UNCHANGED << pc, status, nodeName, taskStatusIndex, minMember,
                    conditions, pgStatus, nodes, ssnJobs,
                    JobIndex, NodeIndex, TopDogReadyJobs, ncalls, call, log,
                    closeCalls, bindIssued, readyDirect, readyBackfill,
                    exceeded >>

\* Session.UpdateJobCondition called during the session (the plugins mark a
\* job unschedulable, or clear the mark, tagged with the session's UID); a
\* job of the index without PodGroup makes it dereference nil
UpdateJobCondition(job, cond) ==
    /\ pc = "open"
    /\ LET r == UpdateJobConditionBody(JobIndex, conditions, job, cond)
       IN IF job \in JobIndex /\ ~hasPodGroup[job]
          THEN pc' = "crashed" /\ UNCHANGED conditions
          ELSE pc' = pc /\ conditions' = r.conds
    /\ call' = Call("UpdateJobCondition", "", NoNode, FALSE, FALSE,
                    job \notin JobIndex)
    /\ UNCHANGED << status, nodeName, taskStatusIndex, minMember,
                    pgStatus, nodes, ssnJobs, JobIndex, NodeIndex,
                    TopDogReadyJobs, eventHandlers, ncalls, log, closeCalls,
                    bindIssued, readyDirect, readyBackfill, exceeded >>

\* jobStatus that reports Running as soon as the minimum is reached
jobStatus_AtLeast(uid, prev, conds, index, minMem) ==
    LET unschedulable ==
            \E i \in 1..Len(conds) :
                /\ conds[i].Type = PodGroupUnschedulableType
                /\ conds[i].Status = ConditionTrue
                /\ conds[i].TransitionID = uid
        phase ==
            IF Cardinality(index[Running]) # 0 /\ unschedulable
            THEN PodGroupUnknown
            ELSE IF CountAllocated(index, Statuses) >= minMem
                 THEN PodGroupRunning
                 ELSE PodGroupPending
    IN [prev EXCEPT !.Phase = phase,
                    !.Running = Cardinality(index[Running]),
                    !.Failed = Cardinality(index[Failed]),
                    !.Succeeded = Cardinality(index[Succeeded])]

\* jobStatus that adds the bucket sizes to the counters it finds
jobStatus_Accumulates(uid, prev, conds, index, minMem) ==
    LET unschedulable ==
            \E i \in 1..Len(conds) :
                /\ conds[i].Type = PodGroupUnschedulableType
                /\ conds[i].Status = ConditionTrue
                /\ conds[i].TransitionID = uid
        phase ==
            IF Cardinality(index[Running]) # 0 /\ unschedulable
            THEN PodGroupUnknown
            ELSE IF CountAllocated(index, Statuses) > minMem
                 THEN PodGroupRunning
                 ELSE PodGroupPending
    IN [prev EXCEPT !.Phase = phase,
                    !.Running = @ + Cardinality(index[Running]),
                    !.Failed = @ + Cardinality(index[Failed]),
                    !.Succeeded = @ + Cardinality(index[Succeeded])]

\* jobStatus that lets a job that was reported Running stay Running
jobStatus_KeepsRunning(uid, prev, conds, index, minMem) ==
    LET unschedulable ==
            \E i \in 1..Len(conds) :
                /\ conds[i].Type = PodGroupUnschedulableType
                /\ conds[i].Status = ConditionTrue
                /\ conds[i].TransitionID = uid
        phase ==
            IF Cardinality(index[Running]) # 0 /\ unschedulable
            THEN PodGroupUnknown
            ELSE IF \/ CountAllocated(index, Statuses) > minMem
                    \/ prev.Phase = PodGroupRunning
                 THEN PodGroupRunning
                 ELSE PodGroupPending
    IN [prev EXCEPT !.Phase = phase,
                    !.Running = Cardinality(index[Running]),
                    !.Failed = Cardinality(index[Failed]),
                    !.Succeeded = Cardinality(index[Succeeded])]

\* jobStatus: the PodGroup status computed from the previous one (prev), the
\* job's conditions, its task status index and its minimum member count
jobStatus(uid, prev, conds, index, minMem) ==
    LET unschedulable ==
            \E i \in 1..Len(conds) :
                /\ conds[i].Type = PodGroupUnschedulableType
                /\ conds[i].Status = ConditionTrue
                /\ conds[i].TransitionID = uid
        phase ==
            IF Cardinality(index[Running]) # 0 /\ unschedulable
            THEN PodGroupUnknown
            ELSE IF CountAllocated(index, Statuses) > minMem
                 THEN PodGroupRunning
                 ELSE PodGroupPending
    IN [prev EXCEPT !.Phase = phase,
                    !.Running = Cardinality(index[Running]),
                    !.Failed = Cardinality(index[Failed]),
                    !.Succeeded = Cardinality(index[Succeeded])]

\* CloseJobs that gives up at the first job whose UpdateJobStatus fails
RECURSIVE CloseJobs_StopsAtFailure(_, _, _, _)
CloseJobs_StopsAtFailure(i, failing, pgs, calls) ==
    IF i > Len(ssnJobs) THEN [pgStatus |-> pgs, calls |-> calls]
    ELSE LET job == ssnJobs[i]
         IN IF ~hasPodGroup[job]
            THEN CloseJobs_StopsAtFailure(i + 1, failing, pgs,
                   Append(calls, [kind |-> "RecordJobStatusEvent", job |-> job,
                                  ok |-> TRUE]))
            ELSE CloseJobs_StopsAtFailure(
                   IF job \in failing THEN Len(ssnJobs) + 1 ELSE i + 1, failing,
                   [pgs EXCEPT ![job] =
                       jobStatus(SessionUID, pgs[job], conditions[job],
                                 taskStatusIndex[job], minMember[job])],
                   Append(calls, [kind |-> "UpdateJobStatus", job |-> job,
                                  ok |-> job \notin failing]))

\* the loop of closeSession over ssn.Jobs; failing are the jobs for which
\* cache.UpdateJobStatus fails
RECURSIVE CloseJobs(_, _, _, _)
CloseJobs(i, failing, pgs, calls) ==
    IF i > Len(ssnJobs) THEN [pgStatus |-> pgs, calls |-> calls]
    ELSE LET job == ssnJobs[i]
         IN IF ~hasPodGroup[job]
            THEN CloseJobs(i + 1, failing, pgs,
                   Append(calls, [kind |-> "RecordJobStatusEvent", job |-> job,
                                  ok |-> TRUE]))
            ELSE CloseJobs(i + 1, failing,
                   [pgs EXCEPT ![job] =
                       jobStatus(SessionUID, pgs[job], conditions[job],
                                 taskStatusIndex[job], minMember[job])],
                   Append(calls, [kind |-> "UpdateJobStatus", job |-> job,
                                  ok |-> job \notin failing]))

closeSession(failing) ==
    /\ pc = "open"
    /\ LET r == CloseJobs(1, failing, pgStatus, << >>)
       IN /\ pgStatus' = r.pgStatus
          /\ closeCalls' = r.calls
    /\ ssnJobs' = << >>
    /\ JobIndex' = {}
    /\ NodeIndex' = {}
    /\ eventHandlers' = << >>
    /\ pc' = "closed"
    /\ call' = Call("closeSession", "", NoNode, FALSE, FALSE, FALSE)
    /\ UNCHANGED << status, nodeName, taskStatusIndex, minMember,
                    conditions, nodes, TopDogReadyJobs, ncalls, log,
                    bindIssued, readyDirect, readyBackfill, exceeded >>

----------------------------------------------------------------------------
(* The snapshot the session is opened on, and the specification *)

\* the snapshots tried: the tasks that are running (on node n1, all others
\* are pending), and the conditions an earlier cycle left on job j1
Snapshots ==
    { [run |-> {}, conds |-> << >>],
      [run |-> {"t1", "t3"},
       conds |-> << Condition(PodGroupUnschedulableType, ConditionTrue,
                              StaleUID) >>] }

\* the PodGroup status left by an earlier cycle
StalePodGroupStatus ==
    [Phase |-> PodGroupRunning, Running |-> 1, Failed |-> 1, Succeeded |-> 1]

Init ==
    /\ pc = "new"
    /\ \E snap \in Snapshots :
         /\ status = [t \in Tasks |-> IF t \in snap.run THEN Running ELSE Pending]
         /\ nodeName = [t \in Tasks |-> IF t \in snap.run THEN "n1" ELSE NoNode]
         /\ taskStatusIndex =
              [j \in Jobs |-> [s \in Statuses |->
                  { t \in Tasks :
                      /\ TaskJob[t] = j
                      /\ s = (IF t \in snap.run THEN Running ELSE Pending) }]]
         /\ nodes = [n \in Nodes |->
              IF n = "n1"
              THEN [Tasks |-> [t \in snap.run |-> "used"],
                    Idle |-> NodeCap - SumResreq(snap.run),
                    Used |-> SumResreq(snap.run), Releasing |-> 0]
              ELSE [Tasks |-> [t \in {} |-> "used"],
                    Idle |-> NodeCap, Used |-> 0, Releasing |-> 0]]
         /\ conditions = [j \in Jobs |-> IF j = "j1" THEN snap.conds ELSE << >>]
    /\ \E m \in 1..MaxMinMember : minMember = [j \in Jobs |-> m]
    /\ pgStatus = [j \in Jobs |-> StalePodGroupStatus]
    /\ ssnJobs = << >>
    /\ JobIndex = {}
    /\ NodeIndex = {}
    /\ TopDogReadyJobs = {}
    /\ eventHandlers = << >>
    /\ ncalls = 0
    /\ call = Call("none", "", NoNode, FALSE, FALSE, FALSE)
    /\ log = << >>
    /\ closeCalls = << >>
    /\ bindIssued = {}
    /\ readyDirect = {}
    /\ readyBackfill = {}
    /\ exceeded = {}

\* the conditions the plugins write during a session
SessionConditions ==
    { Condition(PodGroupUnschedulableType, ConditionTrue, SessionUID) }

Next ==
    \/ openSession
    \/ RegisterHandlers
    \/ \E job \in Jobs, cond \in SessionConditions : UpdateJobCondition(job, cond)
    \/ \E task \in Tasks, hostname \in Hosts : Pipeline(task, hostname)
    \/ \E task \in Tasks, hostname \in Hosts, b \in BOOLEAN :
          AllocateVolumesFails(task, hostname, b)
    \/ \E task \in Tasks, hostname \in Hosts, b \in BOOLEAN, ready \in BOOLEAN :
          Allocate(task, hostname, b, ready)
    \/ \E task \in Tasks, hostname \in Hosts, b \in BOOLEAN, ready \in BOOLEAN :
          AllocateNoJob(task, hostname, b, ready)
    \/ \E task \in Tasks : EvictFails(task)
    \/ \E task \in Tasks : Evict(task)
    \/ \E failing \in SUBSET { j \in JobIndex : hasPodGroup[j] } :
          closeSession(failing)

Spec == Init /\ [][Next]_vars


----------------------------------------------------------------------------
(* Properties *)

\* the step is a call of this primitive
IsCall(op) == ncalls' = ncalls + 1 /\ call'.op = op

TasksOf(job) == { t \in Tasks : TaskJob[t] = job }

\* the nodes whose task list holds the task
ListedOn(t) == { n \in Nodes : t \in DOMAIN nodes[n].Tasks }

\* the log has an entry of this kind for the task
HasEntry(l, kind, t) == \E i \in 1..Len(l) : l[i].kind = kind /\ l[i].task = t
\* the log has an entry of this kind for the task with this result
HasResult(l, kind, t, ok) ==
    \E i \in 1..Len(l) : l[i].kind = kind /\ l[i].task = t /\ l[i].ok = ok
\* the log has an entry of one of these kinds
HasKind(l, kinds) == \E i \in 1..Len(l) : l[i].kind \in kinds

PlacedStatuses == {Pipelined, Allocated, AllocatedOverBackfill, Binding, Running}

\* C1: on every node, idle + used + releasing equals the allocatable
\* capacity, in every state: after every Pipeline, Allocate (with its
\* dispatches) and Evict, failed or not.
C1_CapacityInvariant ==
    \A n \in Nodes :
        nodes[n].Idle + nodes[n].Used + nodes[n].Releasing = NodeCap

\* a task was evicted from a node that still runs another task
C1_Witness ==
    /\ call.op = "Evict" /\ ~call.err
    /\ \E n \in Nodes : nodes[n].Used > 0 /\ nodes[n].Releasing > 0

\* C2 as stated: a task is in exactly one node's task list iff its node name
\* is set and its status is Pipelined, Allocated, AllocatedOverBackfill,
\* Binding or Running; and every listed task names the node that lists it.
C2_MembershipAsStated ==
    /\ \A t \in Tasks :
          (Cardinality(ListedOn(t)) = 1)
             <=> (nodeName[t] # NoNode /\ status[t] \in PlacedStatuses)
    /\ \A n \in Nodes : \A t \in DOMAIN nodes[n].Tasks : nodeName[t] = n

\* C2 amended: a task in some node's task list has a node name, and so has a
\* task whose status is Pipelined, Allocated, AllocatedOverBackfill, Binding
\* or Running.
C2_MembershipAmended ==
    \A t \in Tasks :
        /\ ListedOn(t) # {} => nodeName[t] # NoNode
        /\ status[t] \in PlacedStatuses => nodeName[t] # NoNode

\* a pending task was placed and attached to a node
C2_Witness ==
    /\ call.op \in {"Pipeline", "Allocate"} /\ ~call.err
    /\ status[call.task] \in PlacedStatuses
    /\ ListedOn(call.task) = {call.host}
    /\ \E t \in Tasks : status[t] = Pending /\ ListedOn(t) = {}

\* C3: an Allocate whose AllocateVolumes fails returns the error and changes
\* nothing: task statuses and node names, task status indices, nodes, the
\* backfill-ready set; it invokes no handler and makes no BindVolumes or Bind
\* call.
C3_AllocateVolumesFailureChangesNothing ==
    [][ (IsCall("Allocate") /\ HasResult(log', "AllocateVolumes", call'.task, FALSE))
        => /\ call'.err
           /\ UNCHANGED << status, nodeName, taskStatusIndex, nodes,
                           TopDogReadyJobs, bindIssued, readyDirect,
                           readyBackfill, conditions, pgStatus >>
           /\ Len(log') = 1 ]_vars

\* AllocateVolumes failed for a pending task while handlers are registered
C3_Witness ==
    /\ call.op = "Allocate" /\ call.err
    /\ HasResult(log, "AllocateVolumes", call.task, FALSE)
    /\ eventHandlers # << >>
    /\ status[call.task] = Pending

\* the tasks of the job of the Allocate call of this step that are Allocated
\* once the call has set the status of its task
BatchOfCall ==
    { t \in TasksOf(TaskJob[call'.task]) :
        \/ status[t] = Allocated
        \/ t = call'.task /\ TaskJob[t] \in JobIndex }

AllBindsSucceeded(l) ==
    \A i \in 1..Len(l) : l[i].kind \in {"BindVolumes", "Bind"} => l[i].ok

\* C4: in an Allocate without backfill whose AllocateVolumes succeeded and
\* whose job the validator reports ready, every task of the job that is
\* Allocated at that moment is dispatched; when all BindVolumes and Bind calls
\* succeed, no task of the job is left Allocated and the dispatched ones are
\* Binding.
C4_ReadyJobIsDispatched ==
    [][ (IsCall("Allocate") /\ ~call'.err /\ call'.ready /\ ~call'.backfill)
        => /\ \A t \in BatchOfCall : HasEntry(log', "BindVolumes", t)
           /\ AllBindsSucceeded(log')
                => /\ \A t \in TasksOf(TaskJob[call'.task]) : status'[t] # Allocated
                   /\ \A t \in BatchOfCall : status'[t] = Binding ]_vars

\* an Allocate has dispatched two tasks of a job, both are Binding
C4_Witness ==
    /\ call.op = "Allocate" /\ ~call.err /\ call.ready /\ ~call.backfill
    /\ pc = "open"
    /\ \E t1, t2 \in Tasks :
          /\ t1 # t2
          /\ HasResult(log, "Bind", t1, TRUE) /\ HasResult(log, "Bind", t2, TRUE)
          /\ status[t1] = Binding /\ status[t2] = Binding

\* the job was reported ready in Allocate calls with backfill only
ReadyByBackfillOnly(job) == job \in readyBackfill /\ job \notin readyDirect

\* C5 as stated: once a job is ready through backfill placements only, no
\* later call moves a task of it to Binding or issues Bind for one.
C5_BackfillDeferralAsStated ==
    [][ \A job \in Jobs :
          (ReadyByBackfillOnly(job)
             /\ \A t \in TasksOf(job) : status[t] \notin {Allocated, Binding})
          => \A t \in TasksOf(job) :
                /\ status'[t] = Binding => status[t] = Binding
                /\ t \in bindIssued' => t \in bindIssued ]_vars

\* C5 amended: while a job was reported ready in Allocate calls with backfill
\* only, no task of it is Binding and no Bind was issued for one; and Bind is
\* only ever issued for a task in status Allocated, never for one in status
\* AllocatedOverBackfill.
C5_BackfillDeferralAmended ==
    /\ \A job \in Jobs :
          ReadyByBackfillOnly(job)
             => \A t \in TasksOf(job) : t \notin bindIssued /\ status[t] # Binding
    /\ \A i \in 1..Len(log) : log[i].kind = "Bind" => log[i].st = Allocated

\* a job is ready by backfill only, while it also holds an Allocated task
C5_Witness ==
    /\ ReadyByBackfillOnly("j1")
    /\ "j1" \in TopDogReadyJobs
    /\ \E t \in TasksOf("j1") : status[t] = AllocatedOverBackfill
    /\ \E t \in TasksOf("j1") : status[t] = Allocated


\* the step is an Allocate call whose AllocateVolumes succeeded
AllocateStep ==
    /\ IsCall("Allocate")
    /\ HasResult(log', "AllocateVolumes", call'.task, TRUE)

NoNewBinding == \A t \in Tasks : status'[t] = Binding => status[t] = Binding

C7_DispatchFailureIsIsolated ==
    [][ (AllocateStep /\ ~AllBindsSucceeded(log'))
        => /\ ~call'.err /\ pc' = "open"
           /\ \A t \in BatchOfCall :
                 /\ HasEntry(log', "BindVolumes", t)
                 /\ HasResult(log', "BindVolumes", t, FALSE)
                       => ~HasEntry(log', "Bind", t) /\ status'[t] = Allocated
                 /\ HasResult(log', "Bind", t, FALSE) => status'[t] = Allocated
                 /\ (HasResult(log', "BindVolumes", t, TRUE)
                       /\ HasResult(log', "Bind", t, TRUE)) => status'[t] = Binding
                 /\ nodeName'[t] = (IF t = call'.task THEN call'.host ELSE nodeName[t])
                 /\ \A n \in Nodes : t \in DOMAIN nodes[n].Tasks
                                        => t \in DOMAIN nodes'[n].Tasks
           /\ bindIssued \subseteq bindIssued' ]_vars

\* one task of the batch failed at the cache and is still Allocated, another
\* one was bound and is Binding
C7_Witness ==
    /\ call.op = "Allocate" /\ ~call.err /\ call.ready /\ ~call.backfill
    /\ \E t1, t2 \in Tasks :
          /\ t1 # t2
          /\ \/ HasResult(log, "BindVolumes", t1, FALSE)
             \/ HasResult(log, "Bind", t1, FALSE)
          /\ status[t1] = Allocated
          /\ HasResult(log, "Bind", t2, TRUE)
          /\ status[t2] = Binding

\* the node of the node index that the task names and that charges the
\* task's request to its used capacity
ChargedAsUsed(t) ==
    /\ nodeName[t] \in NodeIndex
    /\ t \in DOMAIN nodes[nodeName[t]].Tasks
    /\ nodes[nodeName[t]].Tasks[t] = "used"

C9_EvictFailureChangesNothing ==
    [][ (IsCall("Evict") /\ HasResult(log', "Evict", call'.task, FALSE))
        => /\ call'.err
           /\ UNCHANGED << status, nodeName, taskStatusIndex, nodes,
                           TopDogReadyJobs, bindIssued, conditions, pgStatus >>
           /\ Len(log') = 1 ]_vars

\* the cache refused to evict a running task while handlers are registered
C9_Witness ==
    /\ call.op = "Evict" /\ call.err
    /\ HasResult(log, "Evict", call.task, FALSE)
    /\ eventHandlers # << >>
    /\ status[call.task] = Running
    /\ TaskJob[call.task] \in JobIndex

\* the job carries an Unschedulable condition that is true and tagged with
\* this session's UID
MarkedUnschedulable(job) ==
    \E i \in 1..Len(conditions[job]) :
        /\ conditions[job][i].Type = PodGroupUnschedulableType
        /\ conditions[job][i].Status = ConditionTrue
        /\ conditions[job][i].TransitionID = SessionUID

\* the number of tasks of the job in a resource-committed status
AllocatedCount(job) ==
    Cardinality({ t \in TasksOf(job) : AllocatedStatus(status[t]) })

\* the jobs whose status closeSession recomputed
Reconciled ==
    { closeCalls[i].job : i \in { k \in 1..Len(closeCalls) :
                                    closeCalls[k].kind = "UpdateJobStatus" } }

\* C10: the phase computed at close is Unknown iff the job has a Running task
\* and is marked unschedulable by this session; otherwise it is Running iff
\* the number of tasks in an allocated status exceeds the minimum member
\* count; otherwise it is Pending.
C10_PhaseAtClose ==
    pc = "closed" =>
      \A job \in Reconciled :
         LET unknown == /\ \E t \in TasksOf(job) : status[t] = Running
                        /\ MarkedUnschedulable(job)
             phase == pgStatus[job].Phase
         IN /\ phase = PodGroupUnknown <=> unknown
            /\ ~unknown => (phase = PodGroupRunning
                              <=> AllocatedCount(job) > minMember[job])
            /\ (~unknown /\ ~(AllocatedCount(job) > minMember[job]))
                  => phase = PodGroupPending

\* a job with a running task that this session marked unschedulable was
\* closed with phase Unknown
C10_Witness ==
    /\ pc = "closed"
    /\ "j1" \in Reconciled
    /\ pgStatus["j1"].Phase = PodGroupUnknown

\* the job has a running task and is marked unschedulable by this session
RunningButUnschedulable(job) ==
    /\ \E t \in TasksOf(job) : status[t] = Running
    /\ MarkedUnschedulable(job)

\* C11 as stated: a job whose allocated count exceeded its minimum member
\* count at some point of the session is reported Running at close (Unknown
\* when it has running tasks and is marked unschedulable by this session),
\* whatever Pipeline, Allocate or Evict calls followed.
C11_GangMonotonicityAsStated ==
    pc = "closed" =>
      \A job \in Reconciled \cap exceeded :
         pgStatus[job].Phase =
            IF RunningButUnschedulable(job) THEN PodGroupUnknown
            ELSE PodGroupRunning

\* C11 amended: a job whose allocated count exceeded its minimum member count
\* at some point of the session is reported Running at close if the count
\* still exceeds the minimum at close, and Pending if later calls brought the
\* count back to the minimum or below (Unknown in either case when it has
\* running tasks and is marked unschedulable by this session).
C11_GangMonotonicityAmended ==
    pc = "closed" =>
      \A job \in Reconciled \cap exceeded :
         pgStatus[job].Phase =
            IF RunningButUnschedulable(job) THEN PodGroupUnknown
            ELSE IF AllocatedCount(job) > minMember[job] THEN PodGroupRunning
            ELSE PodGroupPending

\* a job whose count exceeded the minimum during the session, and still does,
\* was closed with phase Running
C11_Witness ==
    /\ pc = "closed"
    /\ "j1" \in Reconciled \cap exceeded
    /\ ncalls > 0
    /\ AllocatedCount("j1") > minMember["j1"]
    /\ pgStatus["j1"].Phase = PodGroupRunning

\* the phase jobStatus would report for the job in this state
PhaseNow(job) ==
    jobStatus(SessionUID, pgStatus[job], conditions[job],
              taskStatusIndex[job], minMember[job]).Phase

\* job j1 has minimum member count 2 and had no task allocated at open, and
\* Allocate(t1, nodeA) was the first call and found the job not ready
FirstAllocateDone ==
    /\ pc = "open" /\ ncalls = 1
    /\ minMember["j1"] = 2
    /\ \A t \in Tasks \ {"t1"} : status[t] = Pending
    /\ call.op = "Allocate" /\ call.task = "t1" /\ call.host \in Nodes
    /\ ~call.err /\ ~call.backfill /\ ~call.ready

\* after that, Allocate(t2, nodeA, false) found the job ready and every cache
\* call of its dispatch succeeded, and the session was closed
BothAllocatedAndClosed ==
    /\ pc = "closed" /\ ncalls = 2
    /\ minMember["j1"] = 2
    /\ status["t3"] = Pending
    /\ nodeName["t1"] \in Nodes /\ nodeName["t2"] = nodeName["t1"]
    /\ HasResult(log, "AllocateVolumes", "t2", TRUE)
    /\ \A t \in {"t1", "t2"} :
          HasResult(log, "BindVolumes", t, TRUE) /\ HasResult(log, "Bind", t, TRUE)
    /\ "j1" \in Reconciled

\* C12 as stated: for a job with minimum member count 2 and no task
\* allocated, Allocate(t1, nodeA) leaves t1 Allocated and the job phase
\* Pending; a following Allocate(t2, nodeA, false) that finds the job ready
\* and whose cache calls all succeed leaves both tasks Binding, and the phase
\* reported at close is Running.
C12_TwoTaskGangAsStated ==
    /\ FirstAllocateDone
          => status["t1"] = Allocated /\ PhaseNow("j1") = PodGroupPending
    /\ BothAllocatedAndClosed
          => /\ status["t1"] = Binding /\ status["t2"] = Binding
             /\ pgStatus["j1"].Phase = PodGroupRunning

\* C12 amended: the same scenario leaves both tasks Binding, and the phase
\* reported at close is Pending: two allocated tasks do not exceed the
\* minimum member count 2.
C12_TwoTaskGangAmended ==
    /\ FirstAllocateDone
          => status["t1"] = Allocated /\ PhaseNow("j1") = PodGroupPending
    /\ BothAllocatedAndClosed
          => /\ status["t1"] = Binding /\ status["t2"] = Binding
             /\ AllocatedCount("j1") = 2
             /\ pgStatus["j1"].Phase = PodGroupPending

\* both tasks of the gang of two were allocated to one node and dispatched,
\* and the session was closed
C12_Witness ==
    /\ BothAllocatedAndClosed
    /\ bindIssued = {"t1", "t2"}
    /\ nodes[nodeName["t1"]].Used = Resreq["t1"] + Resreq["t2"]

\* C13: after open, every snapshot job that fails the job-validity policies
\* is outside the session's job list and job index and carries an
\* Unschedulable condition with status true, this session's UID and the
\* policy's reason and message; every job that does not fail validity is in
\* the job list and in the job index.
C13_InvalidJobsAreExcludedAndMarked ==
    pc = "open" =>
      \A job \in Jobs :
         IF jobValid[job] = "fail"
         THEN /\ job \notin Range(ssnJobs)
              /\ job \notin JobIndex
              /\ \E i \in 1..Len(conditions[job]) :
                    conditions[job][i] =
                       [Type |-> PodGroupUnschedulableType,
                        Status |-> ConditionTrue,
                        TransitionID |-> SessionUID,
                        Reason |-> jobValidReason,
                        Message |-> jobValidMessage]
         ELSE job \in Range(ssnJobs) /\ job \in JobIndex

\* what does hold after open: the failing jobs are excluded, the others are
\* listed and indexed, and no condition was written
OpenExcludesWithoutMarking ==
    pc = "open" =>
      /\ JobIndex = { job \in Jobs : jobValid[job] = "nil" }
      /\ Range(ssnJobs) = JobIndex
      /\ \A job \in Jobs \ JobIndex : ~MarkedUnschedulable(job)

\* the number of tasks of the job in this status
CountIn(job, s) == Cardinality({ t \in TasksOf(job) : status[t] = s })

\* C14: closeSession makes exactly one persistence attempt for every job of
\* the session, in the order of the job list: UpdateJobStatus for a job with
\* a PodGroup, after its phase and counters were recomputed (also when the
\* call then fails), RecordJobStatusEvent and no recomputation for a job
\* without one; a failing UpdateJobStatus does not stop the loop, and the
\* session ends closed with its job list and indices released.
C14_CloseAttemptsEveryJob ==
    [][ (pc = "open" /\ call'.op = "closeSession")
        => /\ pc' = "closed"
           /\ Len(closeCalls') = Len(ssnJobs)
           /\ \A i \in 1..Len(ssnJobs) :
                 /\ closeCalls'[i].job = ssnJobs[i]
                 /\ closeCalls'[i].kind =
                       IF hasPodGroup[ssnJobs[i]] THEN "UpdateJobStatus"
                       ELSE "RecordJobStatusEvent"
           /\ \A job \in Range(ssnJobs) :
                 IF hasPodGroup[job]
                 THEN /\ pgStatus'[job].Running = CountIn(job, Running)
                      /\ pgStatus'[job].Failed = CountIn(job, Failed)
                      /\ pgStatus'[job].Succeeded = CountIn(job, Succeeded)
                      /\ pgStatus'[job].Phase = PhaseNow(job)
                 ELSE pgStatus'[job] = pgStatus[job]
           /\ \A job \in Jobs \ Range(ssnJobs) : pgStatus'[job] = pgStatus[job]
           /\ ssnJobs' = << >> /\ JobIndex' = {} /\ NodeIndex' = {}
           /\ eventHandlers' = << >> ]_vars

\* UpdateJobStatus failed for the first job, whose status was recomputed all
\* the same, and the job after it got its status event
C14_Witness ==
    /\ pc = "closed"
    /\ Len(closeCalls) = 2
    /\ closeCalls[1].kind = "UpdateJobStatus" /\ ~closeCalls[1].ok
    /\ closeCalls[2].kind = "RecordJobStatusEvent"
    /\ pgStatus[closeCalls[1].job] # StalePodGroupStatus
    /\ pgStatus[closeCalls[2].job] = StalePodGroupStatus

\* PodGroup statuses an earlier cycle may have left
PreviousStatuses ==
    { StalePodGroupStatus,
      [Phase |-> PodGroupPending, Running |-> 0, Failed |-> 0, Succeeded |-> 0],
      [Phase |-> PodGroupUnknown, Running |-> 3, Failed |-> 0, Succeeded |-> 2] }

\* C15: applying jobStatus to a job's status and then again to the result,
\* with the task status index and the conditions unchanged, gives the same
\* phase and the same Running, Failed and Succeeded counters; the counters
\* are the sizes of the Running, Failed and Succeeded buckets of the task
\* status index, whatever the previous status held; and the status left by
\* closeSession is reproduced by one more application.
C15_StatusRecomputeIsIdempotent ==
    \A job \in { j \in Jobs : hasPodGroup[j] } :
       LET Recompute(prev) ==
               jobStatus(SessionUID, prev, conditions[job],
                         taskStatusIndex[job], minMember[job])
           once == Recompute(pgStatus[job])
       IN /\ Recompute(once) = once
          /\ once.Running = Cardinality(taskStatusIndex[job][Running])
          /\ once.Failed = Cardinality(taskStatusIndex[job][Failed])
          /\ once.Succeeded = Cardinality(taskStatusIndex[job][Succeeded])
          /\ \A prev \in PreviousStatuses : Recompute(prev) = once
          /\ (pc = "closed" /\ job \in Reconciled) => once = pgStatus[job]

\* a session was closed on a job whose counters and phase had to change: a
\* task of it is Binding, none is running any more
C15_Witness ==
    /\ pc = "closed"
    /\ "j1" \in Reconciled
    /\ pgStatus["j1"].Running = 0 /\ pgStatus["j1"].Failed = 0
    /\ pgStatus["j1"].Phase # StalePodGroupStatus.Phase
    /\ \E t \in TasksOf("j1") : status[t] = Binding
    /\ \E t \in TasksOf("j1") : status[t] = Releasing

\* the positions of the log's entries of this kind
Positions(l, kind) == { k \in 1..Len(l) : l[k].kind = kind }

\* the entries of this kind are one callback per handler of hs, in the order
\* of registration, each carrying the task; st is the task's status and
\* listed its attachment at the time of the callbacks
CallbacksFired(l, kind, hs, task, st, listed) ==
    /\ \A h \in hs :
          Cardinality({ k \in Positions(l, kind) : l[k].handler = h }) = 1
    /\ \A k \in Positions(l, kind) :
          /\ l[k].handler \in hs
          /\ l[k].task = task
          /\ l[k].st = st
          /\ l[k].listed = listed
    /\ \A k1, k2 \in Positions(l, kind) :
          k1 < k2 => l[k1].handler < l[k2].handler

\* the status the call of this step gives its task
StatusSet ==
    IF TaskJob[call'.task] \notin JobIndex THEN status[call'.task]
    ELSE IF call'.op = "Pipeline" THEN Pipelined
    ELSE IF call'.op = "Evict" THEN Releasing
    ELSE IF call'.backfill THEN AllocatedOverBackfill
    ELSE Allocated

\* C16: a Pipeline or Allocate that does not fail at the cache invokes the
\* allocate callback of every registered handler that has one exactly once,
\* with the placed task, in registration order, after the task's status and
\* node attachment were updated (and after AllocateVolumes), before every
\* BindVolumes and Bind of the call, and no deallocate callback; an Evict that
\* does not fail invokes the deallocate callbacks likewise, after cache.Evict
\* and the status update, and no allocate callback; a call that fails at the
\* cache invokes no callback; dispatching further tasks adds no callback.
C16_HandlersAreNotified ==
    [][ /\ ((IsCall("Pipeline") \/ IsCall("Allocate")) /\ ~call'.err)
           => /\ CallbacksFired(log', "AllocateFunc",
                     { h \in 1..Len(eventHandlers) : eventHandlers[h].AllocateFunc },
                     call'.task, StatusSet,
                     /\ call'.host \in NodeIndex
                     /\ call'.task \in DOMAIN nodes'[call'.host].Tasks)
              /\ nodeName'[call'.task] = call'.host
              /\ Positions(log', "DeallocateFunc") = {}
              /\ \A k \in Positions(log', "AllocateFunc") :
                    /\ \A b \in Positions(log', "BindVolumes")
                                   \cup Positions(log', "Bind") : k < b
                    /\ \A a \in Positions(log', "AllocateVolumes") : a < k
        /\ (IsCall("Evict") /\ ~call'.err)
           => /\ CallbacksFired(log', "DeallocateFunc",
                     { h \in 1..Len(eventHandlers) : eventHandlers[h].DeallocateFunc },
                     call'.task, StatusSet,
                     /\ nodeName[call'.task] \in Nodes
                     /\ call'.task \in DOMAIN nodes[nodeName[call'.task]].Tasks)
              /\ Positions(log', "AllocateFunc") = {}
              /\ \A k \in Positions(log', "DeallocateFunc") :
                    \A a \in Positions(log', "Evict") : a < k
        /\ (ncalls' = ncalls + 1 /\ call'.err)
           => Positions(log', "AllocateFunc") \cup Positions(log', "DeallocateFunc") = {}
      ]_vars

\* with the three handlers registered, an Allocate placed one task and then
\* dispatched two: its log holds the two allocate callbacks, then the binds
C16_Witness ==
    /\ call.op = "Allocate" /\ ~call.err
    /\ Len(eventHandlers) = 3
    /\ Cardinality(Positions(log, "AllocateFunc")) = 2
    /\ Cardinality(Positions(log, "Bind")) = 2
    /\ \A k \in Positions(log, "AllocateFunc") : log[k].st = Allocated /\ log[k].listed

\* the position of a status on the path Pending -> Pipelined -> Allocated or
\* AllocatedOverBackfill -> Binding -> Running
Stage(s) ==
    CASE s = Pending -> 0
      [] s = Pipelined -> 1
      [] s \in {Allocated, AllocatedOverBackfill} -> 2
      [] s = Binding -> 3
      [] s = Running -> 4
      [] OTHER -> 5

\* C17: every change of a task's status made by a primitive goes forward on
\* the path Pending -> Pipelined -> Allocated or AllocatedOverBackfill ->
\* Binding -> Running, or is made by Evict and leads to Releasing from an
\* allocated, binding or running status; Pipeline and Allocate never move a
\* task backwards, and a task becomes Binding only by the dispatch of an
\* Allocated task.
C17_StatusChangesFollowTheStateMachine ==
    [][ \A t \in Tasks :
          status'[t] # status[t]
          => \/ /\ IsCall("Evict")
                /\ status'[t] = Releasing
                /\ status[t] \in {Allocated, AllocatedOverBackfill, Binding, Running}
             \/ /\ IsCall("Pipeline") \/ IsCall("Allocate")
                /\ Stage(status[t]) < Stage(status'[t])
                /\ Stage(status'[t]) <= Stage(Binding)
                /\ status'[t] = Binding
                      => \E k \in Positions(log', "Bind") :
                            log'[k].task = t /\ log'[k].st = Allocated
      ]_vars

\* a running task of a session job was pipelined
RunningTaskPipelined ==
    /\ call.op = "Pipeline"
    /\ TaskJob[call.task] \in JobIndex
    /\ status[call.task] = Pipelined
    /\ ncalls = 1
    /\ call.task \in DOMAIN nodes["n1"].Tasks

\* C18: a Pipeline call makes no cache call, does not ask whether the job is
\* ready, issues no Bind, moves no task to Binding, leaves TopDogReadyJobs as
\* it was and returns success; it changes nothing but the status of its task
\* (Pipelined, through the task's job in the job index), the task's node
\* name, the task list and capacity of the named node, and the log of
\* allocate callbacks.
C18_PipelineIsInSession ==
    [][ IsCall("Pipeline")
        => LET t == call'.task
               h == call'.host
           IN /\ ~call'.err /\ pc' = pc
              /\ \A k \in 1..Len(log') : log'[k].kind = "AllocateFunc"
              /\ bindIssued' = bindIssued
              /\ NoNewBinding
              /\ TopDogReadyJobs' = TopDogReadyJobs
              /\ ~call'.ready
              /\ readyDirect' = readyDirect /\ readyBackfill' = readyBackfill
              /\ status' = [status EXCEPT ![t] = StatusSet]
              /\ nodeName' = [nodeName EXCEPT ![t] = h]
              /\ \A j \in Jobs : \A s \in Statuses :
                    taskStatusIndex'[j][s] =
                       IF j # TaskJob[t] \/ j \notin JobIndex
                       THEN taskStatusIndex[j][s]
                       ELSE IF s = Pipelined THEN taskStatusIndex[j][s] \cup {t}
                       ELSE taskStatusIndex[j][s] \ {t}
              /\ \A n \in Nodes \ {h} : nodes'[n] = nodes[n]
              /\ h \in Nodes
                    => \/ nodes'[h] = nodes[h]
                       \/ /\ t \notin DOMAIN nodes[h].Tasks
                          /\ DOMAIN nodes'[h].Tasks = DOMAIN nodes[h].Tasks \cup {t}
                          /\ nodes'[h].Idle = nodes[h].Idle - Resreq[t]
                          /\ nodes'[h].Used = nodes[h].Used + Resreq[t]
                          /\ nodes'[h].Releasing = nodes[h].Releasing
              /\ UNCHANGED << minMember, conditions, pgStatus, ssnJobs,
                              JobIndex, NodeIndex, eventHandlers, closeCalls >>
      ]_vars

\* a task was pipelined onto a node, the handlers were told, and another
\* task of its job stays Allocated, not dispatched
C18_Witness ==
    /\ call.op = "Pipeline"
    /\ status[call.task] = Pipelined
    /\ ListedOn(call.task) = {call.host}
    /\ Cardinality(Positions(log, "AllocateFunc")) = 2
    /\ \E t \in TasksOf(TaskJob[call.task]) \ {call.task} : status[t] = Allocated

\* no cache call of the call of this step failed
NoCacheFailure == \A k \in 1..Len(log') : log'[k].ok

\* the call of this step is about a task whose job is not in the job index,
\* or about a node that is not in the node index
IndexMiss ==
    \/ TaskJob[call'.task] \notin JobIndex
    \/ /\ call'.op \in {"Pipeline", "Allocate"}
       /\ call'.host \notin NodeIndex
    \/ /\ call'.op = "Evict"
       /\ nodeName[call'.task] \notin NodeIndex

\* C19: a Pipeline, Allocate or Evict whose cache calls succeed and whose
\* task's job is missing from the job index, or whose node is missing from
\* the node index, completes and returns success, and the session goes on;
\* in particular Allocate for a task whose job is not in the job index, with
\* the readiness validator answering pass.
C19_IndexMissesNeverAbort ==
    [][ ((IsCall("Pipeline") \/ IsCall("Allocate") \/ IsCall("Evict"))
           /\ NoCacheFailure /\ IndexMiss)
        => pc' = "open" /\ ~call'.err ]_vars

\* what does hold: Pipeline and Evict survive every index miss, and so does
\* Allocate when only the node is missing or the validator answers no
IndexMissesSurvived ==
    [][ ((IsCall("Pipeline") \/ IsCall("Allocate") \/ IsCall("Evict"))
           /\ NoCacheFailure /\ IndexMiss
           /\ ~(call'.op = "Allocate" /\ call'.ready
                   /\ TaskJob[call'.task] \notin JobIndex))
        => pc' = "open" /\ ~call'.err ]_vars

\* C20: BindVolumes and Bind are called, and a task becomes Binding, only in
\* an Allocate call without backfill in which the validator reported the
\* job of the call's task ready, and only for tasks of that job; Bind is
\* called for a task only after BindVolumes succeeded for the same task in
\* the same call; a task becomes Binding only when its Bind succeeded, and it
\* was Allocated until then; every task that is Binding or for which Bind was
\* issued belongs to a job that was reported ready in such a call.
C20_GangSafetyAndBindOrder ==
    [][ /\ (ncalls' = ncalls + 1 /\ HasKind(log', {"BindVolumes", "Bind"}))
           => /\ call'.op = "Allocate" /\ ~call'.err
              /\ call'.ready /\ ~call'.backfill
              /\ \A k \in Positions(log', "BindVolumes") \cup Positions(log', "Bind") :
                    TaskJob[log'[k].task] = TaskJob[call'.task]
        /\ ncalls' = ncalls + 1
           => \A k \in Positions(log', "Bind") :
                 /\ \E v \in Positions(log', "BindVolumes") :
                       v < k /\ log'[v].task = log'[k].task /\ log'[v].ok
                 /\ log'[k].st = Allocated
        /\ bindIssued' # bindIssued
           => /\ ncalls' = ncalls + 1
              /\ bindIssued' = bindIssued \cup
                    { log'[k].task : k \in Positions(log', "Bind") }
        /\ \A t \in Tasks :
              (status'[t] = Binding /\ status[t] # Binding)
              => /\ ncalls' = ncalls + 1
                 /\ HasResult(log', "Bind", t, TRUE)
        /\ \A t \in Tasks :
              (status'[t] = Binding \/ t \in bindIssued')
              => TaskJob[t] \in readyDirect'
      ]_vars

\* in one dispatch, a task whose BindVolumes failed got no Bind, and another
\* task of the job was bound and is Binding
C20_Witness ==
    /\ call.op = "Allocate" /\ call.ready /\ ~call.backfill
    /\ TaskJob[call.task] \in readyDirect
    /\ \E t1, t2 \in TasksOf(TaskJob[call.task]) :
          /\ t1 # t2
          /\ HasResult(log, "BindVolumes", t1, FALSE)
          /\ ~HasEntry(log, "Bind", t1) /\ t1 \notin bindIssued
          /\ HasResult(log, "BindVolumes", t2, TRUE)
          /\ HasResult(log, "Bind", t2, TRUE)
          /\ t2 \in bindIssued /\ status[t2] = Binding

====
